---------------------------- MODULE Spec2Model ----------------------------
(***************************************************************************)
(* Duplicate detection of scripts/deduplicate.py.                          *)
(*                                                                         *)
(* Texts are sequences of one-character strings.  A similarity score is    *)
(* the exact rational 2*M/T that the float division of ratio() rounds,     *)
(* kept as a reduced fraction [num, den]; for the operand sizes of the     *)
(* model two such quotients are equal, or ordered, as floats exactly when  *)
(* the rationals are, and 0.8 and 0.6 are the floats nearest to 4/5 and    *)
(* 3/5, so every comparison the code makes on floats is made here on the   *)
(* fractions.                                                              *)
(***************************************************************************)
EXTENDS Integers, Sequences, FiniteSets, TLC

(***************************************************************************)
(* Characters                                                              *)
(***************************************************************************)
UpperChars == {"A", "B", "C"}
LowerChars == {"a", "b", "c", "d", "e", "f", "g", "h", "i", "j",
               "q", "r", "s", "w", "x", "y", "z"}
DigitChars == {"1"}
SpaceChars == {" ", "\n", "\t"}
PunctChars == {"-", ".", "#", "*"}

\* \w of a str pattern: letters, digits and the underscore.
IsWordChar(c) == c \in UpperChars \cup LowerChars \cup DigitChars \cup {"_"}

\* \s of a str pattern.
IsSpaceChar(c) == c \in SpaceChars

\* str.lower() on one character.
LowerChar(c) ==
    CASE c = "A" -> "a"
      [] c = "B" -> "b"
      [] c = "C" -> "c"
      [] OTHER -> c

(***************************************************************************)
(* normalize_text                                                          *)
(***************************************************************************)
\* text.lower()
Lower(text) == [i \in 1..Len(text) |-> LowerChar(text[i])]

\* re.sub(r"[^\w\s]", "", text)
KeepWordOrSpace(c) == IsWordChar(c) \/ IsSpaceChar(c)

RemovePunctuation(text) == SelectSeq(text, KeepWordOrSpace)

\* re.sub(r"\s+", " ", text): every maximal run of whitespace becomes one
\* " ".  Position i of the text contributes its character, a " " when it
\* opens a run of whitespace, and nothing when it continues one.
CollapsePiece(text, i) ==
    IF ~IsSpaceChar(text[i]) THEN <<text[i]>>
    ELSE IF i > 1 /\ IsSpaceChar(text[i - 1]) THEN <<>> ELSE <<" ">>

RECURSIVE CollapseRange(_, _, _)
CollapseRange(text, lo, hi) ==
    IF lo > hi THEN <<>>
    ELSE IF lo = hi THEN CollapsePiece(text, lo)
    ELSE LET mid == (lo + hi) \div 2
         IN  CollapseRange(text, lo, mid) \o CollapseRange(text, mid + 1, hi)

CollapseWhitespace(text) == CollapseRange(text, 1, Len(text))

\* str.strip(): drop leading and trailing whitespace.
RECURSIVE LStrip(_)
LStrip(text) ==
    IF text # <<>> /\ IsSpaceChar(Head(text)) THEN LStrip(Tail(text)) ELSE text

RECURSIVE RStrip(_)
RStrip(text) ==
    IF text # <<>> /\ IsSpaceChar(text[Len(text)])
    THEN RStrip(SubSeq(text, 1, Len(text) - 1))
    ELSE text

Strip(text) == RStrip(LStrip(text))

\* A normalization that strips before it removes and collapses.
normalize_text_StripFirst(text) ==
    CollapseWhitespace(RemovePunctuation(Strip(Lower(text))))

\* A normalization that leaves the runs of whitespace as they are.
normalize_text_NoCollapse(text) == Strip(RemovePunctuation(Lower(text)))

normalize_text(text) ==
    Strip(CollapseWhitespace(RemovePunctuation(Lower(text))))

(***************************************************************************)
(* difflib.SequenceMatcher(None, a, b).ratio(), as compute_similarity      *)
(* uses it: no junk predicate, autojunk on.  Indices are 0-based as in     *)
(* difflib; a[i] of the library is a[i + 1] here.                          *)
(***************************************************************************)
RECURSIVE Gcd(_, _)
Gcd(m, n) == IF n = 0 THEN m ELSE Gcd(n, m % n)

Frac(n, d) == [num |-> n \div Gcd(n, d), den |-> d \div Gcd(n, d)]

One == Frac(1, 1)

\* x >= y and x > y on scores.
GE(x, y) == x.num * y.den >= y.num * x.den
GT(x, y) == x.num * y.den > y.num * x.den

\* __chain_b: with 200 or more elements in b, the elements that occur more
\* than len(b) // 100 + 1 times are dropped from the index b2j.
Popular(b) ==
    IF Len(b) >= 200
    THEN {c \in {b[j] : j \in 1..Len(b)} :
            Cardinality({j \in 1..Len(b) : b[j] = c}) > (Len(b) \div 100) + 1}
    ELSE {}

\* a[i] matches b[j] through the index b2j.
Indexed(a, b, pop, i, j) == a[i + 1] = b[j + 1] /\ b[j + 1] \notin pop

\* The least k in lo..hi-1 for which (i + dir*k, j + dir*k) is no indexed
\* match, and hi when there is none.
RECURSIVE FirstMismatch(_, _, _, _, _, _, _, _)
FirstMismatchFrom(a, b, pop, i, j, dir, mid, hi, left) ==
    IF left < mid THEN left ELSE FirstMismatch(a, b, pop, i, j, dir, mid, hi)

FirstMismatch(a, b, pop, i, j, dir, lo, hi) ==
    IF lo >= hi THEN hi
    ELSE IF hi = lo + 1
         THEN IF Indexed(a, b, pop, i + dir * lo, j + dir * lo) THEN hi ELSE lo
    ELSE FirstMismatchFrom(a, b, pop, i, j, dir, (lo + hi) \div 2, hi,
                           FirstMismatch(a, b, pop, i, j, dir, lo,
                                         (lo + hi) \div 2))

Min2(x, y) == IF x <= y THEN x ELSE y

\* Length of the run of indexed matches that starts at (i, j) and stays
\* below (ahi, bhi): the value j2len reaches at the end of the run.
RunLen(a, b, pop, i, j, ahi, bhi) ==
    FirstMismatch(a, b, pop, i, j, 1, 0, Min2(ahi - i, bhi - j))

\* The two extension loops that follow the j2len scan.  bjunk is empty, so
\* they compare the elements only and run through popular elements too.
Extended(m, back, fwd) == <<m[1] - back, m[2] - back, m[3] + back + fwd>>

ExtendBack(a, b, m, alo, blo) ==
    Extended(m, FirstMismatch(a, b, {}, m[1] - 1, m[2] - 1, -1, 0,
                              Min2(m[1] - alo, m[2] - blo)), 0)

\* A forward extension that stops at the popular elements.
ExtendFwd_Indexed(a, b, m, ahi, bhi) ==
    Extended(m, 0, RunLen(a, b, Popular(b), m[1] + m[3], m[2] + m[3],
                          ahi, bhi))

ExtendFwd(a, b, m, ahi, bhi) ==
    Extended(m, 0, RunLen(a, b, {}, m[1] + m[3], m[2] + m[3], ahi, bhi))

\* The greatest element of a non-empty set of integers.
SetMax(S) == CHOOSE x \in S : \A y \in S : y <= x

\* The maximal runs of indexed matches of the window, as (i, j, length): a
\* run starts where the pair before it is outside the window or no match.
Runs(a, b, pop, alo, ahi, blo, bhi) ==
    {<<s[1], s[2], RunLen(a, b, pop, s[1], s[2], ahi, bhi)>> :
       s \in {t \in (alo..(ahi - 1)) \X (blo..(bhi - 1)) :
                /\ Indexed(a, b, pop, t[1], t[2])
                /\ \/ t[1] = alo
                   \/ t[2] = blo
                   \/ ~Indexed(a, b, pop, t[1] - 1, t[2] - 1)}}

\* The runs of the greatest length.
Longest(runs) ==
    LET bestsize == SetMax({r[3] : r \in runs})
    IN  {r \in runs : r[3] = bestsize}

\* Of these the one that starts earliest in a, and of those the one that
\* starts earliest in b.
Earliest(runs) ==
    CHOOSE r \in runs :
       \A q \in runs : r[1] < q[1] \/ (r[1] = q[1] /\ r[2] <= q[2])

\* What the j2len scan leaves in (besti, bestj, bestsize): k > bestsize
\* keeps the first longest run met, and (alo, blo, 0) when there is none.
Scanned(runs, alo, blo) ==
    IF runs = {} THEN <<alo, blo, 0>> ELSE Earliest(Longest(runs))

\* find_longest_match(alo, ahi, blo, bhi)
find_longest_match(a, b, pop, alo, ahi, blo, bhi) ==
    ExtendFwd(a, b,
              ExtendBack(a, b,
                         Scanned(Runs(a, b, pop, alo, ahi, blo, bhi),
                                 alo, blo),
                         alo, blo),
              ahi, bhi)

\* get_matching_blocks, summed: the size of the longest match m of the
\* window plus the sizes found to its left and to its right.
RECURSIVE MatchedIn(_, _, _, _, _, _, _)
MatchedAround(a, b, pop, alo, ahi, blo, bhi, m) ==
    IF m[3] = 0 THEN 0
    ELSE m[3]
         + (IF alo < m[1] /\ blo < m[2]
            THEN MatchedIn(a, b, pop, alo, m[1], blo, m[2]) ELSE 0)
         + (IF m[1] + m[3] < ahi /\ m[2] + m[3] < bhi
            THEN MatchedIn(a, b, pop, m[1] + m[3], ahi, m[2] + m[3], bhi)
            ELSE 0)

MatchedIn(a, b, pop, alo, ahi, blo, bhi) ==
    MatchedAround(a, b, pop, alo, ahi, blo, bhi,
                  find_longest_match(a, b, pop, alo, ahi, blo, bhi))

\* _calculate_ratio(matches, length)
calculate_ratio(matches, length) ==
    IF length = 0 THEN One ELSE Frac(2 * matches, length)

ratio(a, b) ==
    calculate_ratio(MatchedIn(a, b, Popular(b), 0, Len(a), 0, Len(b)),
                    Len(a) + Len(b))

compute_similarity(text1, text2) ==
    ratio(normalize_text(text1), normalize_text(text2))

\* SHA-256 of the normalized text, taken as collision-free: the digest is
\* represented by the text it digests.
\* A hash of the text as it is given.
compute_hash_Raw(content) == [sha256 |-> content]

compute_hash(content) == [sha256 |-> normalize_text(content)]

(***************************************************************************)
(* Configuration                                                           *)
(***************************************************************************)
TITLE_SIMILARITY_THRESHOLD == Frac(8, 10)

CONTENT_SIMILARITY_THRESHOLD == Frac(6, 10)

MIN_CONTENT_LENGTH == 100

(***************************************************************************)
(* Paths and submissions                                                   *)
(*                                                                         *)
(* A pathlib.Path is its anchor and its parts; two paths are equal when    *)
(* both are.  The working directory is /repo and there are no symbolic     *)
(* links.                                                                  *)
(***************************************************************************)
Cwd == <<"repo">>

RelPath(parts) == [absolute |-> FALSE, parts |-> parts]

AbsPath(parts) == [absolute |-> TRUE, parts |-> parts]

\* The parts with every ".." applied to the part before it.
RECURSIVE DropDotDot(_, _)
DropDotDot(parts, done) ==
    IF parts = <<>> THEN done
    ELSE IF Head(parts) = ".."
         THEN DropDotDot(Tail(parts),
                         IF done = <<>> THEN done
                         ELSE SubSeq(done, 1, Len(done) - 1))
         ELSE DropDotDot(Tail(parts), Append(done, Head(parts)))

\* Path.resolve()
resolve(path) ==
    AbsPath(DropDotDot(IF path.absolute THEN path.parts
                       ELSE Cwd \o path.parts, <<>>))

None == [none |-> TRUE]

\* What frontmatter.load gives for a readable file: the metadata mapping
\* and the body.  Titles are strings.
Post(metadata, content) == [metadata |-> metadata, content |-> content]

NoMetadata == [k \in {} |-> <<>>]

WithTitle(title) == [k \in {"title"} |-> title]

\* metadata.get(key, default)
MetadataGet(metadata, key, default) ==
    IF key \in DOMAIN metadata THEN metadata[key] ELSE default

\* load_submission; post is None when frontmatter.load raises.
load_submission(filepath, post) ==
    IF post = None THEN None
    ELSE [path |-> filepath,
          title |-> MetadataGet(post.metadata, "title", <<>>),
          content |-> post.content,
          hash |-> compute_hash(post.content)]

(***************************************************************************)
(* check_duplicate                                                         *)
(***************************************************************************)
ExactContentMatch == "Exact content match"
SimilarTitle == "Similar title"
SimilarContent == "Similar content"

\* Branch with the paths compared as given, not resolved.
Branch_RawPathGuard(new_submission, existing) ==
    IF existing.path = new_submission.path THEN "self"
    ELSE IF existing.hash = new_submission.hash THEN "exact"
    ELSE IF GE(compute_similarity(new_submission.title, existing.title),
               TITLE_SIMILARITY_THRESHOLD)
         THEN "title"
    ELSE IF /\ Len(new_submission.content) >= MIN_CONTENT_LENGTH
            /\ Len(existing.content) >= MIN_CONTENT_LENGTH
            /\ GE(compute_similarity(new_submission.content,
                                     existing.content),
                  CONTENT_SIMILARITY_THRESHOLD)
         THEN "content"
    ELSE "none"

\* Branch with the title check ahead of the hash check.
Branch_TitleBeforeHash(new_submission, existing) ==
    IF resolve(existing.path) = resolve(new_submission.path) THEN "self"
    ELSE IF GE(compute_similarity(new_submission.title, existing.title),
               TITLE_SIMILARITY_THRESHOLD)
         THEN "title"
    ELSE IF existing.hash = new_submission.hash THEN "exact"
    ELSE IF /\ Len(new_submission.content) >= MIN_CONTENT_LENGTH
            /\ Len(existing.content) >= MIN_CONTENT_LENGTH
            /\ GE(compute_similarity(new_submission.content,
                                     existing.content),
                  CONTENT_SIMILARITY_THRESHOLD)
         THEN "content"
    ELSE "none"

\* Branch with > for >= on both thresholds.
Branch_StrictThresholds(new_submission, existing) ==
    IF resolve(existing.path) = resolve(new_submission.path) THEN "self"
    ELSE IF existing.hash = new_submission.hash THEN "exact"
    ELSE IF GT(compute_similarity(new_submission.title, existing.title),
               TITLE_SIMILARITY_THRESHOLD)
         THEN "title"
    ELSE IF /\ Len(new_submission.content) >= MIN_CONTENT_LENGTH
            /\ Len(existing.content) >= MIN_CONTENT_LENGTH
            /\ GT(compute_similarity(new_submission.content,
                                     existing.content),
                  CONTENT_SIMILARITY_THRESHOLD)
         THEN "content"
    ELSE "none"

\* Branch with the length test on the new submission only.
Branch_NewLengthOnly(new_submission, existing) ==
    IF resolve(existing.path) = resolve(new_submission.path) THEN "self"
    ELSE IF existing.hash = new_submission.hash THEN "exact"
    ELSE IF GE(compute_similarity(new_submission.title, existing.title),
               TITLE_SIMILARITY_THRESHOLD)
         THEN "title"
    ELSE IF /\ Len(new_submission.content) >= MIN_CONTENT_LENGTH
            /\ GE(compute_similarity(new_submission.content,
                                     existing.content),
                  CONTENT_SIMILARITY_THRESHOLD)
         THEN "content"
    ELSE "none"

\* Branch with the content check ahead of the title check.
Branch_ContentBeforeTitle(new_submission, existing) ==
    IF resolve(existing.path) = resolve(new_submission.path) THEN "self"
    ELSE IF existing.hash = new_submission.hash THEN "exact"
    ELSE IF /\ Len(new_submission.content) >= MIN_CONTENT_LENGTH
            /\ Len(existing.content) >= MIN_CONTENT_LENGTH
            /\ GE(compute_similarity(new_submission.content,
                                     existing.content),
                  CONTENT_SIMILARITY_THRESHOLD)
         THEN "content"
    ELSE IF GE(compute_similarity(new_submission.title, existing.title),
               TITLE_SIMILARITY_THRESHOLD)
         THEN "title"
    ELSE "none"

\* Branch that moves on to the next submission after the title check,
\* whatever its outcome.
Branch_NoFallthrough(new_submission, existing) ==
    IF resolve(existing.path) = resolve(new_submission.path) THEN "self"
    ELSE IF existing.hash = new_submission.hash THEN "exact"
    ELSE IF GE(compute_similarity(new_submission.title, existing.title),
               TITLE_SIMILARITY_THRESHOLD)
         THEN "title"
    ELSE "none"

\* The branch the loop body takes for one existing submission.
Branch(new_submission, existing) ==
    IF resolve(existing.path) = resolve(new_submission.path) THEN "self"
    ELSE IF existing.hash = new_submission.hash THEN "exact"
    ELSE IF GE(compute_similarity(new_submission.title, existing.title),
               TITLE_SIMILARITY_THRESHOLD)
         THEN "title"
    ELSE IF /\ Len(new_submission.content) >= MIN_CONTENT_LENGTH
            /\ Len(existing.content) >= MIN_CONTENT_LENGTH
            /\ GE(compute_similarity(new_submission.content,
                                     existing.content),
                  CONTENT_SIMILARITY_THRESHOLD)
         THEN "content"
    ELSE "none"

\* An entry of duplicates.  submission refers to an element of the caller's
\* list: it is the index of that element.  reason is the kind of the match;
\* the percentage the code prints into it is the similarity field.
Match(ref, reason, similarity) ==
    [submission |-> ref, reason |-> reason, similarity |-> similarity]

\* LoopBody without the continue statements: an entry for every criterion
\* the pair meets.
LoopBody_NoContinue(new_submission, existing, ref) ==
    IF resolve(existing.path) = resolve(new_submission.path) THEN <<>>
    ELSE (IF existing.hash = new_submission.hash
          THEN <<Match(ref, ExactContentMatch, One)>> ELSE <<>>)
         \o (IF GE(compute_similarity(new_submission.title, existing.title),
                   TITLE_SIMILARITY_THRESHOLD)
             THEN <<Match(ref, SimilarTitle,
                          compute_similarity(new_submission.title,
                                             existing.title))>>
             ELSE <<>>)
         \o (IF /\ Len(new_submission.content) >= MIN_CONTENT_LENGTH
                /\ Len(existing.content) >= MIN_CONTENT_LENGTH
                /\ GE(compute_similarity(new_submission.content,
                                         existing.content),
                      CONTENT_SIMILARITY_THRESHOLD)
             THEN <<Match(ref, SimilarContent,
                          compute_similarity(new_submission.content,
                                             existing.content))>>
             ELSE <<>>)

\* What one pass of the loop body appends to duplicates for the element at
\* index ref: nothing, or one entry.
LoopBody(new_submission, existing, ref) ==
    LET branch == Branch(new_submission, existing)
    IN  CASE branch = "exact" ->
               <<Match(ref, ExactContentMatch, One)>>
          [] branch = "title" ->
               <<Match(ref, SimilarTitle,
                       compute_similarity(new_submission.title,
                                          existing.title))>>
          [] branch = "content" ->
               <<Match(ref, SimilarContent,
                       compute_similarity(new_submission.content,
                                          existing.content))>>
          [] OTHER -> <<>>

\* list.sort(key=similarity, reverse=True): a stable sort; an entry goes
\* after every entry sorted so far whose similarity is not smaller.
RECURSIVE InsertBySimilarity(_, _)
InsertBySimilarity(sorted, m) ==
    IF sorted = <<>> THEN <<m>>
    ELSE IF GE(Head(sorted).similarity, m.similarity)
         THEN <<Head(sorted)>> \o InsertBySimilarity(Tail(sorted), m)
         ELSE <<m>> \o sorted

RECURSIVE SortFrom(_, _, _)
SortFrom(list, k, sorted) ==
    IF k > Len(list) THEN sorted
    ELSE SortFrom(list, k + 1, InsertBySimilarity(sorted, list[k]))

\* An ascending sort whose result is reversed: entries of equal similarity
\* come out in reverse order.
RECURSIVE InsertAscending(_, _)
InsertAscending(sorted, m) ==
    IF sorted = <<>> THEN <<m>>
    ELSE IF GE(m.similarity, Head(sorted).similarity)
         THEN <<Head(sorted)>> \o InsertAscending(Tail(sorted), m)
         ELSE <<m>> \o sorted

RECURSIVE SortAscendingFrom(_, _, _)
SortAscendingFrom(list, k, sorted) ==
    IF k > Len(list) THEN sorted
    ELSE SortAscendingFrom(list, k + 1, InsertAscending(sorted, list[k]))

Reversed(list) == [k \in 1..Len(list) |-> list[Len(list) + 1 - k]]

SortBySimilarity_AscendingReversed(list) ==
    Reversed(SortAscendingFrom(list, 1, <<>>))

SortBySimilarity(list) == SortFrom(list, 1, <<>>)

\* A return statement whose flag tests len(duplicates) >= 0.
Returned_NotNegative(duplicates) == <<Len(duplicates) >= 0, duplicates>>

\* The return statement.
Returned(duplicates) == <<Len(duplicates) > 0, duplicates>>

\* The entries the loop has collected after its first n passes.
RECURSIVE Collected(_, _, _)
Collected(new_submission, existing_submissions, n) ==
    IF n = 0 THEN <<>>
    ELSE Collected(new_submission, existing_submissions, n - 1)
         \o LoopBody(new_submission, existing_submissions[n], n)

check_duplicate(new_submission, existing_submissions) ==
    Returned(SortBySimilarity(
        Collected(new_submission, existing_submissions,
                  Len(existing_submissions))))

(***************************************************************************)
(* Inputs                                                                  *)
(***************************************************************************)
MaxExisting == 3

Rep(s, n) == [i \in 1..n |-> s[((i - 1) % Len(s)) + 1]]

\* A markdown rule of n characters.
Rule(n) == Rep(<<"-">>, n)

TitleA == <<"A", "b", "-", "c", "d", "e">>
TitleNear == <<"a", "b", "c", "d", "x">>
TitleFar == <<"a", "b", "x", "y", "z">>
\* A title left out or left empty, and one of punctuation only.
TitleEmpty == <<>>
TitleRule == <<"#">>

ContentA == <<"A", "b", "c", "d", "e", "f", "g", "h", "i", "j">> \o Rule(90)
ContentACopy ==
    <<"a", "b", "c", "d", "e", ".", "f", "g", "h", "i", "j", "\n">>
       \o Rule(88)
ContentB == <<"a", "b", "c", "d", "e", "f", "g", "h", "i", "x">> \o Rule(90)
ContentBShort ==
    <<"a", "b", "c", "d", "e", "f", "g", "h", "i", "x">> \o Rule(89)
ContentC == <<"a", "b", "c", "d", "e", "f", "x", "y", "z", "w">> \o Rule(90)
ContentD == <<"a", "b", "c", "d", "e", "z", "z", "z", "z", "z">> \o Rule(90)

PathA == RelPath(<<"submissions", "a.md">>)
PathAAbs == AbsPath(<<"repo", "submissions", "a.md">>)
PathADots == RelPath(<<"submissions", "x", "..", "a.md">>)
PathB == RelPath(<<"submissions", "b.md">>)
PathC == RelPath(<<"submissions", "c.md">>)
PathD == RelPath(<<"submissions", "d.md">>)
PathE == RelPath(<<"submissions", "e.md">>)

Loaded(path, title, content) ==
    load_submission(path, Post(WithTitle(title), content))

NewSubmissions ==
    {Loaded(PathA, TitleA, ContentA),
     Loaded(PathA, TitleA, ContentBShort),
     Loaded(PathADots, TitleFar, ContentC),
     load_submission(PathE, Post(NoMetadata, <<>>))}

ExistingPool ==
    {Loaded(PathAAbs, TitleA, ContentA),
     Loaded(PathB, TitleNear, ContentACopy),
     Loaded(PathC, TitleNear, ContentB),
     Loaded(PathC, TitleFar, ContentC),
     Loaded(PathD, TitleFar, ContentD),
     Loaded(PathD, TitleFar, ContentBShort),
     Loaded(PathB, TitleRule, ContentB)}

SeqsUpTo(S, n) == UNION {[1..k -> S] : k \in 0..n}

(***************************************************************************)
(* One call of check_duplicate, a pass of its loop at a time               *)
(***************************************************************************)
VARIABLES new_submission, existing_submissions, duplicates, pos, pc, result

\* The state of one run of check_submissions_for_duplicates.
VARIABLES disk, new_files, all_submissions, results, has_duplicates,
          file_index, batch_pc

\* What main has returned: no element while it runs, its exit code after.
VARIABLES exit_code

\* The texts given to the functions on text and what they return: the
\* similarity of the texts in either order, the results of normalize_text
\* applied to the first text and again to what it returned, the hashes of
\* the texts, and the submissions loaded with the first text as content.
VARIABLES text1, text2, forward, backward, normalized, hashes, loaded

\* One call of check_link: the URL, where the call is, the requests sent
\* and what came back for each, and the tuple returned.
VARIABLES url, link_pc, sent, received, link_result

\* One call of check_file_links: the file, the futures of the links
\* submitted to the pool with the state of each, the results collected and
\* the pair returned.
VARIABLES link_file, futures, link_results, file_result

\* update_readme_section applied over and again: the README, the new
\* content of the section and the documents returned.
VARIABLES readme, new_content, updated

callVars ==
    <<new_submission, existing_submissions, duplicates, pos, pc, result>>

linkVars == <<url, link_pc, sent, received, link_result>>

poolVars == <<link_file, futures, link_results, file_result>>

readmeVars == <<readme, new_content, updated>>

toolVars == <<linkVars, poolVars, readmeVars>>

textVars == <<text1, text2, forward, backward, normalized, hashes, loaded>>

batchVars ==
    <<disk, new_files, all_submissions, results, has_duplicates, file_index,
      batch_pc, exit_code>>

vars == <<callVars, batchVars, textVars, toolVars>>

\* No batch run.
NoBatch ==
    /\ disk = <<>>
    /\ new_files = <<>>
    /\ all_submissions = <<>>
    /\ results = <<>>
    /\ has_duplicates = FALSE
    /\ file_index = 0
    /\ batch_pc = "idle"
    /\ exit_code = <<>>

\* No call of check_link.
NoLink ==
    /\ url = <<>>
    /\ link_pc = "idle"
    /\ sent = <<>>
    /\ received = <<>>
    /\ link_result = <<>>

\* No call of check_file_links.
NoPool ==
    /\ link_file = <<>>
    /\ futures = <<>>
    /\ link_results = <<>>
    /\ file_result = <<>>

\* No call of update_readme_section.
NoReadme ==
    /\ readme = <<>>
    /\ new_content = <<>>
    /\ updated = <<>>

NoTooling == NoLink /\ NoPool /\ NoReadme

\* No call of a function on text.
NoText ==
    /\ text1 = <<>>
    /\ text2 = <<>>
    /\ forward = None
    /\ backward = None
    /\ normalized = <<>>
    /\ hashes = <<>>
    /\ loaded = <<>>

Init ==
    /\ new_submission \in NewSubmissions
    /\ existing_submissions \in SeqsUpTo(ExistingPool, MaxExisting)
    /\ duplicates = <<>>
    /\ pos = 0
    /\ pc = "loop"
    /\ result = <<>>
    /\ NoBatch
    /\ NoText
    /\ NoTooling

\* The loop has an element left and its body takes the given branch on it.
Taking(branch) ==
    /\ pc = "loop"
    /\ pos < Len(existing_submissions)
    /\ Branch(new_submission, existing_submissions[pos + 1]) = branch

\* A pass that keeps the normalized title in the existing submission.
Pass_KeepingNormalized ==
    /\ duplicates' = duplicates
         \o LoopBody(new_submission, existing_submissions[pos + 1], pos + 1)
    /\ pos' = pos + 1
    /\ existing_submissions' =
          [existing_submissions EXCEPT
             ![pos + 1].title = normalize_text(@)]
    /\ UNCHANGED <<new_submission, pc, result>>
    /\ UNCHANGED <<batchVars, textVars, toolVars>>

\* One pass of the for loop.
Pass ==
    /\ duplicates' = duplicates
         \o LoopBody(new_submission, existing_submissions[pos + 1], pos + 1)
    /\ pos' = pos + 1
    /\ UNCHANGED <<new_submission, existing_submissions, pc, result>>
    /\ UNCHANGED <<batchVars, textVars, toolVars>>

SkipSelf ==
    /\ Taking("self")
    /\ Pass

RecordExact ==
    /\ Taking("exact")
    /\ Pass

RecordTitle ==
    /\ Taking("title")
    /\ Pass

RecordContent ==
    /\ Taking("content")
    /\ Pass

RecordNothing ==
    /\ Taking("none")
    /\ Pass

\* The sort and the return that follow the loop.
SortAndReturn ==
    /\ pc = "loop"
    /\ pos = Len(existing_submissions)
    /\ duplicates' = SortBySimilarity(duplicates)
    /\ result' = Returned(duplicates')
    /\ pc' = "done"
    /\ UNCHANGED <<new_submission, existing_submissions, pos>>
    /\ UNCHANGED <<batchVars, textVars, toolVars>>

Next ==
    \/ SkipSelf
    \/ RecordExact
    \/ RecordTitle
    \/ RecordContent
    \/ RecordNothing
    \/ SortAndReturn

Spec == Init /\ [][Next]_vars

(***************************************************************************)
(* check_submissions_for_duplicates, a new file at a time                  *)
(*                                                                         *)
(* The disk maps the resolved path of each file to what frontmatter.load   *)
(* gives for it, None when it raises; a path that is not on the disk       *)
(* raises too.  results is the dict as a mapping from the paths given, as  *)
(* given, to their outcomes.                                               *)
(***************************************************************************)
MaxNew == 3

RepoRoot == AbsPath(<<"repo">>)

MarkdownNames == {"a.md", "b.md", "c.md", "n.md"}

\* base_path / "submissions"
SubmissionsDir(base_path) == AbsPath(base_path.parts \o <<"submissions">>)

\* The match of glob("**/*.md") under the directory.
IsGlobbed(file, dir) ==
    /\ Len(file.parts) > Len(dir.parts)
    /\ SubSeq(file.parts, 1, Len(dir.parts)) = dir.parts
    /\ file.parts[Len(file.parts)] \in MarkdownNames

\* frontmatter.load(filepath) on the disk d.
FrontmatterLoad(d, filepath) ==
    IF resolve(filepath) \in DOMAIN d THEN d[resolve(filepath)] ELSE None

IsLoaded(sub) == sub # None

\* The files the glob of find_all_submissions yields, in any order.
GlobOrders(d, base_path) ==
    LET files == {f \in DOMAIN d : IsGlobbed(f, SubmissionsDir(base_path))}
    IN  {order \in [1..Cardinality(files) -> files] :
           \A i, j \in 1..Cardinality(files) :
              order[i] = order[j] => i = j}

\* The submissions loaded up to the first file that fails to load.
RECURSIVE LoadedUntilFailure(_, _, _)
LoadedUntilFailure(d, globbed, i) ==
    IF i > Len(globbed) \/ FrontmatterLoad(d, globbed[i]) = None THEN <<>>
    ELSE <<load_submission(globbed[i], FrontmatterLoad(d, globbed[i]))>>
           \o LoadedUntilFailure(d, globbed, i + 1)

find_all_submissions_UntilFailure(d, globbed) ==
    LoadedUntilFailure(d, globbed, 1)

\* find_all_submissions, the glob yielding the files in the given order.
find_all_submissions(d, globbed) ==
    SelectSeq([i \in 1..Len(globbed) |->
                 load_submission(globbed[i], FrontmatterLoad(d, globbed[i]))],
              IsLoaded)

\* The entry stored for a file that loaded, from what check_duplicate
\* returned for it.
Checked(returned) ==
    IF returned[1]
    THEN [status |-> "duplicate", duplicates |-> returned[2]]
    ELSE [status |-> "unique"]

\* An outcome that takes a failed load for a submission without matches.
Outcome_ErrorAsUnique(new_sub, corpus) ==
    IF new_sub = None THEN [status |-> "unique"]
    ELSE Checked(check_duplicate(new_sub, corpus))

\* The entry the loop body stores in results for one new file.
Outcome(new_sub, corpus) ==
    IF new_sub = None
    THEN [status |-> "error", message |-> "Failed to load submission"]
    ELSE Checked(check_duplicate(new_sub, corpus))

\* A store that starts the dict anew.
Store_Anew(dict, key, value) == [k \in {key} |-> value]

\* results[filepath] = outcome
Store(dict, key, value) ==
    [k \in DOMAIN dict \cup {key} |-> IF k = key THEN value ELSE dict[k]]

PostA == Post(WithTitle(TitleA), ContentA)
PostB == Post(WithTitle(TitleNear), ContentB)
PostC == Post(WithTitle(TitleFar), ContentD)
PostNotes == Post(NoMetadata, ContentA)

FileA == AbsPath(<<"repo", "submissions", "a.md">>)
FileB == AbsPath(<<"repo", "submissions", "b.md">>)
FileC == AbsPath(<<"repo", "submissions", "c.md">>)
FileNotes == AbsPath(<<"repo", "submissions", "notes.txt">>)
FileN == AbsPath(<<"repo", "incoming", "n.md">>)

PathN == RelPath(<<"incoming", "n.md">>)

\* The disks: three submissions and a file that is no markdown in the
\* submissions directory, one markdown file outside it; a.md and n.md each
\* parse or fail to.
Disks ==
    {[f \in {FileA, FileB, FileC, FileNotes, FileN} |->
        CASE f = FileA -> a
          [] f = FileB -> PostB
          [] f = FileC -> PostC
          [] f = FileNotes -> PostNotes
          [] f = FileN -> n] :
       a \in {PostA, None}, n \in {PostA, None}}

NewPaths == {PathN, PathA, PathAAbs, PathC}

NoCall ==
    /\ new_submission = None
    /\ existing_submissions = <<>>
    /\ duplicates = <<>>
    /\ pos = 0
    /\ pc = "idle"
    /\ result = <<>>

\* files_to_check of main: the paths given on the command line, or with
\* none given the glob of the submissions directory, in any order.
FilesToCheck(d) ==
    SeqsUpTo(NewPaths, MaxNew) \cup GlobOrders(d, RepoRoot)

InitBatch ==
    /\ disk \in Disks
    /\ new_files \in FilesToCheck(disk)
    /\ all_submissions = <<>>
    /\ results = <<>>
    /\ has_duplicates = FALSE
    /\ file_index = 0
    /\ batch_pc = "main"
    /\ exit_code = <<>>
    /\ NoCall
    /\ NoText
    /\ NoTooling

\* main with no file to check: it returns 0 before anything is loaded.
ExitNoFiles ==
    /\ batch_pc = "main"
    /\ new_files = <<>>
    /\ exit_code' = <<0>>
    /\ batch_pc' = "exit"
    /\ UNCHANGED <<disk, new_files, all_submissions, results, has_duplicates,
                   file_index>>
    /\ UNCHANGED <<callVars, textVars, toolVars>>

\* main calls check_submissions_for_duplicates(files_to_check, repo_root).
CallCheck ==
    /\ batch_pc = "main"
    /\ new_files # <<>>
    /\ batch_pc' = "start"
    /\ UNCHANGED <<disk, new_files, all_submissions, results, has_duplicates,
                   file_index, exit_code>>
    /\ UNCHANGED <<callVars, textVars, toolVars>>

\* all_submissions = find_all_submissions(base_path)
LoadCorpus ==
    /\ batch_pc = "start"
    /\ \E globbed \in GlobOrders(disk, RepoRoot) :
          all_submissions' = find_all_submissions(disk, globbed)
    /\ batch_pc' = "loop"
    /\ UNCHANGED <<disk, new_files, results, has_duplicates, file_index,
                   exit_code>>
    /\ UNCHANGED <<callVars, textVars, toolVars>>

\* One pass of the loop over new_files, for a file whose outcome has the
\* given status.
HandleFile(status) ==
    /\ batch_pc = "loop"
    /\ file_index < Len(new_files)
    /\ \E outcome \in
          {Outcome(load_submission(new_files[file_index + 1],
                                   FrontmatterLoad(disk,
                                                   new_files[file_index + 1])),
                   all_submissions)} :
          /\ outcome.status = status
          /\ results' = Store(results, new_files[file_index + 1], outcome)
    /\ file_index' = file_index + 1
    /\ UNCHANGED <<disk, new_files, all_submissions, batch_pc, exit_code>>
    /\ UNCHANGED <<callVars, textVars, toolVars>>

\* A pass in which a file that failed to load sets the flag.
ReportError_Flagging ==
    /\ HandleFile("error")
    /\ has_duplicates' = TRUE

ReportError ==
    /\ HandleFile("error")
    /\ UNCHANGED has_duplicates

ReportDuplicate ==
    /\ HandleFile("duplicate")
    /\ has_duplicates' = TRUE

ReportUnique ==
    /\ HandleFile("unique")
    /\ UNCHANGED has_duplicates

\* return has_duplicates, results
ReturnBatch ==
    /\ batch_pc = "loop"
    /\ file_index = Len(new_files)
    /\ batch_pc' = "done"
    /\ UNCHANGED <<disk, new_files, all_submissions, results, has_duplicates,
                   file_index, exit_code>>
    /\ UNCHANGED <<callVars, textVars, toolVars>>

\* The value main returns after the summary.
ExitCode(flag) == IF flag THEN 1 ELSE 0

\* main prints the results and returns.
ExitWithFlag ==
    /\ batch_pc = "done"
    /\ exit_code = <<>>
    /\ exit_code' = <<ExitCode(has_duplicates)>>
    /\ UNCHANGED <<disk, new_files, all_submissions, results, has_duplicates,
                   file_index, batch_pc>>
    /\ UNCHANGED <<callVars, textVars, toolVars>>

NextBatch ==
    \/ ExitNoFiles
    \/ CallCheck
    \/ LoadCorpus
    \/ ReportError
    \/ ReportDuplicate
    \/ ReportUnique
    \/ ReturnBatch
    \/ ExitWithFlag

SpecBatch == InitBatch /\ [][NextBatch]_vars

(***************************************************************************)
(* compute_similarity on a pair of texts, in either order of the arguments *)
(***************************************************************************)
MaxTextLen == 3

\* The short texts: letters of either case.
SimilarityChars == {"a", "B", "c"}

ShortTexts == SeqsUpTo(SimilarityChars, MaxTextLen)

\* Texts long enough for the index of SequenceMatcher to drop the popular
\* elements: one letter and then another 199 times, and three characters
\* 100 times over.
LongOneLetter == <<"C">> \o Rep(<<"a">>, 199) \o <<".">>
LongRepeated == Rep(<<"a", "B", " ">>, 300)

SimilarityTexts == ShortTexts \cup {LongOneLetter, LongRepeated}

InitSimilarity ==
    /\ text1 \in SimilarityTexts
    /\ text2 \in SimilarityTexts
    /\ forward = None
    /\ backward = None
    /\ normalized = <<>>
    /\ hashes = <<>>
    /\ loaded = <<>>
    /\ NoCall
    /\ NoBatch
    /\ NoTooling

\* forward = compute_similarity(text1, text2)
ComputeForward ==
    /\ forward = None
    /\ forward' = compute_similarity(text1, text2)
    /\ UNCHANGED <<text1, text2, backward, normalized, hashes, loaded>>
    /\ UNCHANGED <<callVars, batchVars, toolVars>>

\* backward = compute_similarity(text2, text1)
ComputeBackward ==
    /\ backward = None
    /\ backward' = compute_similarity(text2, text1)
    /\ UNCHANGED <<text1, text2, forward, normalized, hashes, loaded>>
    /\ UNCHANGED <<callVars, batchVars, toolVars>>

NextSimilarity ==
    \/ ComputeForward
    \/ ComputeBackward

SpecSimilarity == InitSimilarity /\ [][NextSimilarity]_vars

(***************************************************************************)
(* normalize_text, compute_hash and load_submission on a text and on a     *)
(* text that is a variant of it                                            *)
(***************************************************************************)
NormalizeChars == {"a", "B", "_", " ", "\n", "-"}

NormalizeTexts == SeqsUpTo(NormalizeChars, MaxTextLen)

NotPunctuation(c) == c \notin PunctChars

\* The text without its punctuation.
WithoutPunctuation(text) == SelectSeq(text, NotPunctuation)

\* The text with a tab after each of its whitespace characters.
RECURSIVE Widened(_)
Widened(text) ==
    IF text = <<>> THEN <<>>
    ELSE (IF IsSpaceChar(Head(text)) THEN <<Head(text), "\t">>
          ELSE <<Head(text)>>) \o Widened(Tail(text))

\* Texts that differ from the given one in case, in punctuation or in
\* whitespace only, and texts that differ in more.
Variants(text) ==
    {text,
     Lower(text),
     WithoutPunctuation(text),
     Widened(text),
     <<"#">> \o text \o <<".">>,
     <<"\t", " ">> \o text \o <<"\n">>,
     text \o <<"a">>,
     <<"a", "_">>}

\* The paths and titles a text is loaded under.
LoadedAs == {<<PathA, TitleA>>, <<PathB, TitleEmpty>>}

InitNormalize ==
    /\ text1 \in NormalizeTexts
    /\ text2 \in Variants(text1)
    /\ forward = None
    /\ backward = None
    /\ normalized = <<>>
    /\ hashes = <<>>
    /\ loaded = <<>>
    /\ NoCall
    /\ NoBatch
    /\ NoTooling

\* normalize_text(text1)
NormalizeText ==
    /\ normalized = <<>>
    /\ normalized' = <<normalize_text(text1)>>
    /\ UNCHANGED <<text1, text2, forward, backward, hashes, loaded>>
    /\ UNCHANGED <<callVars, batchVars, toolVars>>

\* normalize_text of what normalize_text returned
NormalizeAgain ==
    /\ Len(normalized) = 1
    /\ normalized' = Append(normalized, normalize_text(normalized[1]))
    /\ UNCHANGED <<text1, text2, forward, backward, hashes, loaded>>
    /\ UNCHANGED <<callVars, batchVars, toolVars>>

\* compute_hash of the two texts
ComputeHash ==
    /\ Len(normalized) = 2
    /\ hashes = <<>>
    /\ hashes' = <<compute_hash(text1), compute_hash(text2)>>
    /\ UNCHANGED <<text1, text2, forward, backward, normalized, loaded>>
    /\ UNCHANGED <<callVars, batchVars, toolVars>>

\* load_submission of a file with one of the texts as its content, the
\* files loaded in any order.
LoadSubmission ==
    /\ hashes # <<>>
    /\ Len(loaded) < 2
    /\ \E as \in LoadedAs, content \in {text1, text2} :
          loaded' = Append(loaded,
                           load_submission(as[1],
                                           Post(WithTitle(as[2]), content)))
    /\ UNCHANGED <<text1, text2, forward, backward, normalized, hashes>>
    /\ UNCHANGED <<callVars, batchVars, toolVars>>

\* compute_similarity of the two texts
CompareTexts ==
    /\ hashes # <<>>
    /\ loaded = <<>>
    /\ ComputeForward

NextNormalize ==
    \/ NormalizeText
    \/ NormalizeAgain
    \/ ComputeHash
    \/ LoadSubmission
    \/ CompareTexts

SpecNormalize == InitNormalize /\ [][NextNormalize]_vars

(***************************************************************************)
(* link_check.py: check_link on one URL                                    *)
(*                                                                         *)
(* A URL is a sequence of elements, each a delimiter character or a word   *)
(* without delimiters, so that "https://site.org/a" is                     *)
(* <<"https", ":", "/", "/", "site.org", "/", "a">>.  A pattern or a       *)
(* domain occurs in a URL where its elements occur in a row.               *)
(***************************************************************************)
MaxPathLen == 2

SUCCESS_CODES == 200..399

\* str.lower() of an element.
LowerWord(w) ==
    CASE w = "HTTPS" -> "https"
      [] w = "GitHub.com" -> "github.com"
      [] w = "LocalHost" -> "localhost"
      [] OTHER -> w

LowerUrl(u) == [i \in 1..Len(u) |-> LowerWord(u[i])]

\* The patterns, each with whether it is anchored at the start.
SKIP_PATTERNS ==
    <<[anchored |-> TRUE, pattern |-> <<"mailto", ":">>],
      [anchored |-> TRUE, pattern |-> <<"tel", ":">>],
      [anchored |-> TRUE, pattern |-> <<"#">>],
      [anchored |-> FALSE, pattern |-> <<"localhost">>],
      [anchored |-> FALSE, pattern |-> <<"127.0.0.1">>],
      [anchored |-> FALSE, pattern |-> <<"example.com">>]>>

WARN_DOMAINS ==
    {"twitter.com", "x.com", "linkedin.com", "facebook.com", "instagram.com",
     "arxiv.org", "github.com"}

TRUSTED_DOMAINS ==
    {"arxiv.org", "doi.org", "dl.acm.org", "papers.nips.cc", "openreview.net",
     "aclanthology.org"}

\* The pattern occurs in the text at position i.
OccursAt(pattern, text, i) ==
    /\ i + Len(pattern) - 1 <= Len(text)
    /\ SubSeq(text, i, i + Len(pattern) - 1) = pattern

\* re.search(pattern, url, re.IGNORECASE)
Search(p, u) ==
    IF p.anchored THEN OccursAt(p.pattern, LowerUrl(u), 1)
    ELSE \E i \in 1..Len(u) : OccursAt(p.pattern, LowerUrl(u), i)

should_skip_url(u) ==
    \E k \in 1..Len(SKIP_PATTERNS) : Search(SKIP_PATTERNS[k], u)

Delimiters == {":", "/", "?", "#"}

\* The first position from i on of an element of the set, and one past the
\* end when there is none.
RECURSIVE Find(_, _, _)
Find(u, set, i) ==
    IF i > Len(u) \/ u[i] \in set THEN i ELSE Find(u, set, i + 1)

\* urlparse(url).scheme: what stands before the first colon when it is
\* not empty and has scheme characters only, which the delimiters are not.
Scheme(u) ==
    IF /\ Find(u, {":"}, 1) <= Len(u)
       /\ Find(u, {":"}, 1) > 1
       /\ Find(u, Delimiters, 1) = Find(u, {":"}, 1)
    THEN LowerUrl(SubSeq(u, 1, Find(u, {":"}, 1) - 1))
    ELSE <<>>

\* What follows the scheme and its colon.
AfterScheme(u) ==
    IF Scheme(u) = <<>> THEN u ELSE SubSeq(u, Len(Scheme(u)) + 2, Len(u))

\* urlparse(url).netloc: after two slashes, what stands before the next
\* slash, question mark or hash.
NetlocOf(rest) ==
    IF Len(rest) >= 2 /\ rest[1] = "/" /\ rest[2] = "/"
    THEN SubSeq(rest, 3, Find(rest, {"/", "?", "#"}, 3) - 1)
    ELSE <<>>

Netloc(u) == NetlocOf(AfterScheme(u))

\* domain in netloc.lower(), for one of the domains of the set
InDomains(u, domains) ==
    \E i \in 1..Len(Netloc(u)) : LowerWord(Netloc(u)[i]) \in domains

is_warn_domain(u) == InDomains(u, WARN_DOMAINS)

is_trusted_domain(u) == InDomains(u, TRUSTED_DOMAINS)

\* not parsed.scheme or not parsed.netloc
Malformed(u) == Scheme(u) = <<>> \/ Netloc(u) = <<>>

\* The messages, and those that name the status of the response.
Message(text) == [text |-> text]

StatusMessage(text, status) == [text |-> text, status |-> status]

\* What a request comes back with: a response with its status, or an
\* exception.
Response(status) == [status_code |-> status]

Raised(e) == [raised |-> e]

IsResponse(r) == "status_code" \in DOMAIN r

\* The tuple check_link returns.
LinkResult(u, is_valid, message) ==
    [url |-> u, is_valid |-> is_valid, message |-> message]

\* The decision check_link takes before any request: the result it returns
\* at once, or none when it goes on to the request.
Precheck_MalformedFirst(u) ==
    IF Malformed(u) THEN <<LinkResult(u, FALSE, Message("Invalid URL format"))>>
    ELSE IF should_skip_url(u)
    THEN <<LinkResult(u, TRUE, Message("Skipped (internal/special link)"))>>
    ELSE IF is_trusted_domain(u)
    THEN <<LinkResult(u, TRUE, Message("OK (trusted domain)"))>>
    ELSE IF is_warn_domain(u)
    THEN <<LinkResult(u, TRUE,
                      Message("Warning: Domain may block automated requests"))>>
    ELSE <<>>

Precheck(u) ==
    IF should_skip_url(u)
    THEN <<LinkResult(u, TRUE, Message("Skipped (internal/special link)"))>>
    ELSE IF Malformed(u)
    THEN <<LinkResult(u, FALSE, Message("Invalid URL format"))>>
    ELSE IF is_trusted_domain(u)
    THEN <<LinkResult(u, TRUE, Message("OK (trusted domain)"))>>
    ELSE IF is_warn_domain(u)
    THEN <<LinkResult(u, TRUE,
                      Message("Warning: Domain may block automated requests"))>>
    ELSE <<>>

\* A retry on every status that is no success.
RetryWithGet_OnAnyFailure(status) == status \notin SUCCESS_CODES

\* The status of the HEAD response on which the GET request is made.
RetryWithGet(status) == status = 405

\* The result for the response that was received last.
Verdict(u, status) ==
    IF status \in SUCCESS_CODES
    THEN LinkResult(u, TRUE, StatusMessage("OK", status))
    ELSE LinkResult(u, FALSE, StatusMessage("HTTP", status))

\* The exceptions a request raises, by the except clause that takes them,
\* and the message of each.
RequestErrors ==
    {"Timeout", "ConnectionError", "TooManyRedirects", "RequestException",
     "Exception"}

ErrorMessage(e) ==
    CASE e = "Timeout" -> Message("Timeout")
      [] e = "ConnectionError" -> Message("Connection error")
      [] e = "TooManyRedirects" -> Message("Too many redirects")
      [] e = "RequestException" -> Message("Request error")
      [] e = "Exception" -> Message("Unexpected error")

\* The status codes a server answers with.
StatusCodes == {199, 200, 301, 399, 400, 404, 405, 500}

\* The URLs: a start, a host and a path of up to MaxPathLen elements.
UrlStarts ==
    {<<>>,
     <<"https", ":", "/", "/">>,
     <<"HTTPS", ":", "/", "/">>,
     <<"https", ":">>,
     <<"https", ":", "/", "/", "/">>,
     <<"/", "/">>,
     <<"mailto", ":">>,
     <<"#">>}

UrlHosts ==
    {<<>>,
     <<"site.org">>,
     <<"doi.org">>,
     <<"GitHub.com">>,
     <<"my", "arxiv.org">>,
     <<"LocalHost">>}

UrlPathElements == {"/", "#", ":", "a", "mailto", "example.com", "github.com"}

Urls ==
    {start \o host \o path :
       start \in UrlStarts, host \in UrlHosts,
       path \in SeqsUpTo(UrlPathElements, MaxPathLen)}

InitLink ==
    /\ url \in Urls
    /\ link_pc = "start"
    /\ sent = <<>>
    /\ received = <<>>
    /\ link_result = <<>>
    /\ link_file = <<>>
    /\ futures = <<>>
    /\ link_results = <<>>
    /\ file_result = <<>>
    /\ NoReadme
    /\ NoCall
    /\ NoBatch
    /\ NoText

\* What a step of check_link leaves as it is.
LinkFrame ==
    /\ UNCHANGED <<url, poolVars, readmeVars>>
    /\ UNCHANGED <<callVars, batchVars, textVars>>

\* The URL is decided without a request.
ReturnEarly ==
    /\ link_pc = "start"
    /\ Precheck(url) # <<>>
    /\ link_result' = Precheck(url)
    /\ link_pc' = "done"
    /\ UNCHANGED <<sent, received>>
    /\ LinkFrame

\* requests.head(url, ...)
SendHead ==
    /\ link_pc = "start"
    /\ Precheck(url) = <<>>
    /\ sent' = Append(sent, "HEAD")
    /\ link_pc' = "head"
    /\ UNCHANGED <<received, link_result>>
    /\ LinkFrame

\* The HEAD request returns a response with a status other than 405.
HeadReturns ==
    /\ link_pc = "head"
    /\ \E status \in StatusCodes :
          /\ ~RetryWithGet(status)
          /\ received' = Append(received, Response(status))
          /\ link_result' = <<Verdict(url, status)>>
    /\ link_pc' = "done"
    /\ UNCHANGED sent
    /\ LinkFrame

\* The HEAD request returns 405 and requests.get(url, ...) is called.
HeadNotAllowed ==
    /\ link_pc = "head"
    /\ \E status \in StatusCodes :
          /\ RetryWithGet(status)
          /\ received' = Append(received, Response(status))
    /\ sent' = Append(sent, "GET")
    /\ link_pc' = "get"
    /\ UNCHANGED link_result
    /\ LinkFrame

\* The GET request returns a response.
GetReturns ==
    /\ link_pc = "get"
    /\ \E status \in StatusCodes :
          /\ received' = Append(received, Response(status))
          /\ link_result' = <<Verdict(url, status)>>
    /\ link_pc' = "done"
    /\ UNCHANGED sent
    /\ LinkFrame

\* The request under way raises.
RequestRaises ==
    /\ link_pc \in {"head", "get"}
    /\ \E e \in RequestErrors :
          /\ received' = Append(received, Raised(e))
          /\ link_result' = <<LinkResult(url, FALSE, ErrorMessage(e))>>
    /\ link_pc' = "done"
    /\ UNCHANGED sent
    /\ LinkFrame

NextLink ==
    \/ ReturnEarly
    \/ SendHead
    \/ HeadReturns
    \/ HeadNotAllowed
    \/ GetReturns
    \/ RequestRaises

SpecLink == InitLink /\ [][NextLink]_vars

(***************************************************************************)
(* link_check.py: check_file_links on one file, its links checked by the   *)
(* workers of the pool                                                     *)
(*                                                                         *)
(* A file is what read_text and extract_links give for it: it cannot be    *)
(* read, or it has a list of links without repetition.  The servers answer *)
(* every request of a run with the same status.                            *)
(***************************************************************************)
MaxLinks == 6

MAX_WORKERS == 5

\* The links a file has: the first ones of this list.
LinkPool ==
    <<<<"https", ":", "/", "/", "site.org">>,
      <<"#">>,
      <<"https", ":", "/", "/", "site.org", "/", "a">>,
      <<"https", ":", "/", "/", "doi.org">>,
      <<"a">>,
      <<"https", ":", "/", "/", "GitHub.com">>,
      <<"https", ":", "/", "/", "site.org", "/", "b">>,
      <<"https", ":", "/", "/", "site.org", "/", "c">>>>

Unreadable == [unreadable |-> TRUE]

Readable(links, status) == [links |-> links, status |-> status]

CanBeRead(f) == "links" \in DOMAIN f

LinkFiles ==
    {Unreadable}
       \cup {Readable(SubSeq(LinkPool, 1, n), status) :
               n \in 0..MaxLinks, status \in {200, 404}}

\* What check_link returns for a URL when the servers answer with the
\* given status.
check_link(u, status) ==
    IF Precheck(u) # <<>> THEN Precheck(u)[1] ELSE Verdict(u, status)

\* The futures in the given state.
FuturesIn(state) == {i \in 1..Len(futures) : futures[i] = state}

InitPool ==
    /\ link_file \in LinkFiles
    /\ futures = <<>>
    /\ link_results = <<>>
    /\ file_result = <<>>
    /\ NoLink
    /\ NoReadme
    /\ NoCall
    /\ NoBatch
    /\ NoText

PoolFrame ==
    /\ UNCHANGED <<link_file, linkVars, readmeVars>>
    /\ UNCHANGED <<callVars, batchVars, textVars>>

\* The pair check_file_links returns.
FileResult(all_valid, checked) ==
    [all_valid |-> all_valid, results |-> checked]

\* read_text raises.
ReadFails ==
    /\ file_result = <<>>
    /\ ~CanBeRead(link_file)
    /\ file_result' =
          <<FileResult(FALSE,
                       <<LinkResult(<<>>, FALSE,
                                    Message("Failed to read file"))>>)>>
    /\ UNCHANGED <<futures, link_results>>
    /\ PoolFrame

\* The file has no links.
ReturnNoLinks ==
    /\ file_result = <<>>
    /\ CanBeRead(link_file)
    /\ link_file.links = <<>>
    /\ file_result' = <<FileResult(TRUE, <<>>)>>
    /\ UNCHANGED <<futures, link_results>>
    /\ PoolFrame

\* executor.submit(check_link, url) for every link
SubmitAll ==
    /\ file_result = <<>>
    /\ CanBeRead(link_file)
    /\ link_file.links # <<>>
    /\ futures = <<>>
    /\ futures' = [i \in 1..Len(link_file.links) |-> "pending"]
    /\ UNCHANGED <<link_results, file_result>>
    /\ PoolFrame

\* A worker takes the task that was submitted first of those that wait,
\* when fewer than MAX_WORKERS tasks are running.
StartWork ==
    /\ FuturesIn("pending") # {}
    /\ Cardinality(FuturesIn("running")) < MAX_WORKERS
    /\ \E i \in FuturesIn("pending") :
          /\ \A j \in FuturesIn("pending") : i <= j
          /\ futures' = [futures EXCEPT ![i] = "running"]
    /\ UNCHANGED <<link_results, file_result>>
    /\ PoolFrame

\* check_link returns in a worker.
FinishWork ==
    /\ \E i \in FuturesIn("running") :
          futures' = [futures EXCEPT ![i] = "finished"]
    /\ UNCHANGED <<link_results, file_result>>
    /\ PoolFrame

\* The result the loop over as_completed appends for future i.
CollectedFrom(i) == check_link(link_file.links[i], link_file.status)

\* as_completed yields a future that is done and its result is appended.
Collect ==
    /\ \E i \in FuturesIn("finished") :
          /\ futures' = [futures EXCEPT ![i] = "collected"]
          /\ link_results' = Append(link_results, CollectedFrom(i))
    /\ UNCHANGED file_result
    /\ PoolFrame

\* all(is_valid for _, is_valid, _ in results)
AllValid_Any(checked) ==
    \E k \in 1..Len(checked) : checked[k].is_valid

AllValid(checked) ==
    \A k \in 1..Len(checked) : checked[k].is_valid

\* Every future has been yielded: check_links_parallel returns and
\* check_file_links with it.
ReturnFile ==
    /\ file_result = <<>>
    /\ futures # <<>>
    /\ FuturesIn("collected") = 1..Len(futures)
    /\ file_result' = <<FileResult(AllValid(link_results), link_results)>>
    /\ UNCHANGED <<futures, link_results>>
    /\ PoolFrame

NextPool ==
    \/ ReadFails
    \/ ReturnNoLinks
    \/ SubmitAll
    \/ StartWork
    \/ FinishWork
    \/ Collect
    \/ ReturnFile

SpecPool == InitPool /\ [][NextPool]_vars

(***************************************************************************)
(* update_readme.py: update_readme_section                                 *)
(*                                                                         *)
(* A document is a sequence of elements: a marker, a line break or a piece *)
(* of other text.  No end of a marker is the beginning of the other marker *)
(* and no marker has a line break, so that the markers found in a document *)
(* are its marker elements.                                                *)
(***************************************************************************)
MaxReadmeLen == 4

CATEGORIES_START == "<!-- AUTO-GENERATED CATEGORIES START -->"

CATEGORIES_END == "<!-- AUTO-GENERATED CATEGORIES END -->"

ReadmeElements == {CATEGORIES_START, CATEGORIES_END, "\n", "a"}

Readmes == SeqsUpTo(ReadmeElements, MaxReadmeLen)

\* The sections that are generated: a section has the titles of the
\* submissions, which are any text.
NewContents == SeqsUpTo(ReadmeElements, 1) \cup {<<"a", "\n", "a">>}

\* content.find(marker): the index of the first marker, 0 for -1.
FindMarker(content, marker) ==
    IF Find(content, {marker}, 1) > Len(content)
    THEN 0
    ELSE Find(content, {marker}, 1)

update_readme_section(content, start_marker, end_marker, section) ==
    LET start_idx == FindMarker(content, start_marker)
        end_idx   == FindMarker(content, end_marker)
    IN  IF start_idx = 0 \/ end_idx = 0
        THEN content
        ELSE SubSeq(content, 1, start_idx) \o <<"\n">> \o section
                \o <<"\n">> \o SubSeq(content, end_idx, Len(content))

InitReadme ==
    /\ readme \in Readmes
    /\ new_content \in NewContents
    /\ updated = <<>>
    /\ NoLink
    /\ NoPool
    /\ NoCall
    /\ NoBatch
    /\ NoText

ReadmeFrame ==
    /\ UNCHANGED <<readme, new_content, linkVars, poolVars>>
    /\ UNCHANGED <<callVars, batchVars, textVars>>

\* The section of the README is updated.
UpdateSection ==
    /\ updated = <<>>
    /\ updated' =
          <<update_readme_section(readme, CATEGORIES_START, CATEGORIES_END,
                                  new_content)>>
    /\ ReadmeFrame

\* The section of the updated document is updated with the same content.
UpdateSectionAgain ==
    /\ Len(updated) = 1
    /\ updated' =
          Append(updated,
                 update_readme_section(updated[1], CATEGORIES_START,
                                       CATEGORIES_END, new_content))
    /\ ReadmeFrame

NextReadme ==
    \/ UpdateSection
    \/ UpdateSectionAgain

SpecReadme == InitReadme /\ [][NextReadme]_vars

(***************************************************************************)
(* Properties of check_duplicate                                           *)
(***************************************************************************)
\* The element at index k is the new submission's own file.
SameIdentity(k) ==
    resolve(existing_submissions[k].path) = resolve(new_submission.path)

SameHash(k) == existing_submissions[k].hash = new_submission.hash

TitleScore(k) ==
    compute_similarity(new_submission.title, existing_submissions[k].title)

ContentScore(k) ==
    compute_similarity(new_submission.content,
                       existing_submissions[k].content)

BothLongEnough(k) ==
    /\ Len(new_submission.content) >= MIN_CONTENT_LENGTH
    /\ Len(existing_submissions[k].content) >= MIN_CONTENT_LENGTH

\* The positions of the entries of duplicates that refer to element k.
EntriesFor(k) ==
    {n \in 1..Len(duplicates) : duplicates[n].submission = k}

Processed == 1..pos

Done == pc = "done"

\* C1: self-exclusion.  No entry of the match list, while it is collected
\* and as it is returned, refers to an existing submission whose resolved
\* path is the resolved path of the new submission.
SelfExclusion ==
    /\ \A n \in 1..Len(duplicates) : ~SameIdentity(duplicates[n].submission)
    /\ Done => \A n \in 1..Len(result[2]) :
                  ~SameIdentity(result[2][n].submission)

\* A call has returned whose list held the new submission's own file under
\* another spelling of its path, with the same content and hash, next to a
\* submission that did match.
SelfExclusionWitness ==
    /\ Done
    /\ result[1]
    /\ \E k \in Processed :
          /\ SameIdentity(k)
          /\ existing_submissions[k].path # new_submission.path
          /\ existing_submissions[k].content = new_submission.content
          /\ SameHash(k)

\* C2: exact match precedence.  Every processed existing submission of
\* another identity whose hash is the new submission's hash has exactly one
\* entry, with reason exact content match and similarity 1.0.
ExactMatchPrecedence ==
    \A k \in Processed :
       (~SameIdentity(k) /\ SameHash(k)) =>
          /\ Cardinality(EntriesFor(k)) = 1
          /\ \A n \in EntriesFor(k) :
                /\ duplicates[n].reason = ExactContentMatch
                /\ duplicates[n].similarity = One

\* A call has returned for which an existing submission of another identity
\* had the same hash, another content text, another title, and a title
\* similar enough for a title match.
ExactMatchPrecedenceWitness ==
    /\ Done
    /\ \E k \in Processed :
          /\ ~SameIdentity(k)
          /\ SameHash(k)
          /\ existing_submissions[k].content # new_submission.content
          /\ existing_submissions[k].title # new_submission.title
          /\ GE(TitleScore(k), TITLE_SIMILARITY_THRESHOLD)

\* C3: at most one result per existing submission.  No element of the list
\* has two entries, and the entries are no more than the processed elements
\* of another identity.
AtMostOneMatchPerExisting ==
    /\ \A k \in 1..Len(existing_submissions) : Cardinality(EntriesFor(k)) <= 1
    /\ Len(duplicates) <= Cardinality({k \in Processed : ~SameIdentity(k)})

\* A call has returned for which one existing submission met the hash, the
\* title and the content criterion at once.
AtMostOneMatchWitness ==
    /\ Done
    /\ \E k \in Processed :
          /\ ~SameIdentity(k)
          /\ SameHash(k)
          /\ GE(TitleScore(k), TITLE_SIMILARITY_THRESHOLD)
          /\ BothLongEnough(k)
          /\ GE(ContentScore(k), CONTENT_SIMILARITY_THRESHOLD)
          /\ Cardinality(EntriesFor(k)) = 1

\* C4: ordering.  The returned list is sorted by similarity, highest first,
\* and entries of equal similarity are in the order of the list of existing
\* submissions.
SortedStable ==
    Done =>
       \A p, q \in 1..Len(result[2]) :
          p < q =>
             /\ GE(result[2][p].similarity, result[2][q].similarity)
             /\ result[2][p].similarity = result[2][q].similarity
                   => result[2][p].submission < result[2][q].submission

\* A call has returned three entries: two of equal similarity, from the
\* first and the last existing submission, and before them one of higher
\* similarity, from the submission between the two.
SortedStableWitness ==
    /\ Done
    /\ Len(result[2]) = 3
    /\ result[2][1].submission = 2
    /\ result[2][2].submission = 1
    /\ result[2][3].submission = 3
    /\ result[2][2].similarity = result[2][3].similarity
    /\ GT(result[2][1].similarity, result[2][2].similarity)

ShortContentExemption ==
    Done =>
       /\ \A n \in 1..Len(duplicates) :
             duplicates[n].reason = SimilarContent
                => BothLongEnough(duplicates[n].submission)
       /\ \A k \in Processed :
             (/\ ~SameIdentity(k) /\ ~SameHash(k)
              /\ Len(new_submission.content) = MIN_CONTENT_LENGTH
              /\ Len(existing_submissions[k].content) = MIN_CONTENT_LENGTH
              /\ ~GE(TitleScore(k), TITLE_SIMILARITY_THRESHOLD)
              /\ GE(ContentScore(k), CONTENT_SIMILARITY_THRESHOLD))
                => \E n \in EntriesFor(k) :
                      duplicates[n].reason = SimilarContent

\* A call has returned with a pair whose existing content had 99 characters
\* and a content similarity above the threshold and that got no entry, and
\* a pair of two contents of 100 characters that got a similar-content
\* entry.
ShortContentExemptionWitness ==
    /\ Done
    /\ \E k \in Processed :
          /\ ~SameIdentity(k) /\ ~SameHash(k)
          /\ Len(new_submission.content) = MIN_CONTENT_LENGTH
          /\ Len(existing_submissions[k].content) = MIN_CONTENT_LENGTH - 1
          /\ ~GE(TitleScore(k), TITLE_SIMILARITY_THRESHOLD)
          /\ GE(ContentScore(k), CONTENT_SIMILARITY_THRESHOLD)
          /\ EntriesFor(k) = {}
    /\ \E k \in Processed :
          /\ Len(new_submission.content) = MIN_CONTENT_LENGTH
          /\ Len(existing_submissions[k].content) = MIN_CONTENT_LENGTH
          /\ \E n \in EntriesFor(k) : duplicates[n].reason = SimilarContent

\* C7: a title match short-circuits the content check.  An existing
\* submission of another identity and hash whose title similarity is at or
\* above 0.8 has exactly one entry, a similar-title entry whose similarity
\* is the title score, whatever the content similarity is.
TitleShortCircuit ==
    Done =>
       \A k \in Processed :
          (/\ ~SameIdentity(k) /\ ~SameHash(k)
           /\ GE(TitleScore(k), TITLE_SIMILARITY_THRESHOLD)) =>
             /\ Cardinality(EntriesFor(k)) = 1
             /\ \A n \in EntriesFor(k) :
                   /\ duplicates[n].reason = SimilarTitle
                   /\ duplicates[n].similarity = TitleScore(k)

\* A call has returned with a similar-title pair whose contents were long
\* enough and more similar than the titles.
TitleShortCircuitWitness ==
    /\ Done
    /\ \E k \in Processed :
          /\ ~SameIdentity(k) /\ ~SameHash(k)
          /\ GE(TitleScore(k), TITLE_SIMILARITY_THRESHOLD)
          /\ BothLongEnough(k)
          /\ GT(ContentScore(k), TitleScore(k))

\* C8: content fallthrough.  An existing submission of another identity and
\* hash whose title similarity is below 0.8, with both contents long enough
\* and a content similarity at or above 0.6, has exactly one entry, a
\* similar-content entry whose similarity is the content score.
ContentFallthrough ==
    Done =>
       \A k \in Processed :
          (/\ ~SameIdentity(k) /\ ~SameHash(k)
           /\ ~GE(TitleScore(k), TITLE_SIMILARITY_THRESHOLD)
           /\ BothLongEnough(k)
           /\ GE(ContentScore(k), CONTENT_SIMILARITY_THRESHOLD)) =>
             /\ Cardinality(EntriesFor(k)) = 1
             /\ \A n \in EntriesFor(k) :
                   /\ duplicates[n].reason = SimilarContent
                   /\ duplicates[n].similarity = ContentScore(k)

\* A call has returned with a pair whose titles shared text but stayed
\* below the title threshold and whose contents were above the content
\* threshold.
ContentFallthroughWitness ==
    /\ Done
    /\ \E k \in Processed :
          /\ ~SameIdentity(k) /\ ~SameHash(k)
          /\ ~GE(TitleScore(k), TITLE_SIMILARITY_THRESHOLD)
          /\ GT(TitleScore(k), Frac(0, 1))
          /\ BothLongEnough(k)
          /\ GT(ContentScore(k), CONTENT_SIMILARITY_THRESHOLD)

\* Element k meets none of the hash, title and content criteria.
MeetsNoCriterion(k) ==
    /\ ~SameHash(k)
    /\ ~GE(TitleScore(k), TITLE_SIMILARITY_THRESHOLD)
    /\ ~(BothLongEnough(k)
         /\ GE(ContentScore(k), CONTENT_SIMILARITY_THRESHOLD))

\* C9: the returned flag is true exactly when the returned list is not
\* empty, and the call returns (false, empty list) when no existing
\* submission of another identity meets a criterion.
FlagIffMatches ==
    Done =>
       /\ result[1] <=> Len(result[2]) > 0
       /\ (\A k \in Processed : SameIdentity(k) \/ MeetsNoCriterion(k))
             => result = <<FALSE, <<>>>>

\* A call has returned for a new submission and an existing submission of
\* another identity, both long enough, that met no criterion.
FlagIffMatchesWitness ==
    /\ Done
    /\ result = <<FALSE, <<>>>>
    /\ \E k \in Processed :
          /\ ~SameIdentity(k)
          /\ BothLongEnough(k)
          /\ MeetsNoCriterion(k)

(***************************************************************************)
(* Properties of check_submissions_for_duplicates                          *)
(***************************************************************************)
\* What load_submission gives for a path on the disk of the run.
LoadOf(filepath) ==
    load_submission(filepath, FrontmatterLoad(disk, filepath))

BatchDone == batch_pc = "done"

\* The new files the loop has handled.
Handled == {new_files[i] : i \in 1..file_index}

\* The corpus: what the files of the submissions directory that parse load
\* as.
LoadedCorpus ==
    {load_submission(f, disk[f]) :
       f \in {g \in DOMAIN disk :
                IsGlobbed(g, SubmissionsDir(RepoRoot)) /\ disk[g] # None}}

\* Some submission of the corpus list is a match for the loaded file.
MatchesCorpus(filepath) ==
    \E k \in 1..Len(all_submissions) :
       LoopBody(LoadOf(filepath), all_submissions[k], k) # <<>>

\* C10: a load failure is isolated.  Every new file handled so far has one
\* outcome, error exactly when its load failed; the run ends with an
\* outcome for every new file; a file that loaded is a duplicate exactly
\* when a submission of the full loaded corpus matches it and unique
\* otherwise; and the error outcomes are as many as the distinct new files
\* that failed to load.
LoadFailureIsolated ==
    /\ batch_pc \in {"loop", "done"} => DOMAIN results = Handled
    /\ \A p \in DOMAIN results :
          /\ results[p].status \in {"error", "unique", "duplicate"}
          /\ results[p].status = "error" <=> LoadOf(p) = None
    /\ BatchDone =>
          /\ file_index = Len(new_files)
          /\ {all_submissions[k] : k \in 1..Len(all_submissions)}
                = LoadedCorpus
          /\ Len(all_submissions) = Cardinality(LoadedCorpus)
          /\ \A p \in DOMAIN results :
                LoadOf(p) # None =>
                   (results[p].status = "duplicate" <=> MatchesCorpus(p))
          /\ Cardinality({p \in DOMAIN results :
                            results[p].status = "error"})
                = Cardinality({new_files[i] : i \in
                                 {j \in 1..Len(new_files) :
                                    LoadOf(new_files[j]) = None}})

\* A run of three new files has ended of which the first failed to load,
\* one of the others is a duplicate and one is unique, with a file of the
\* corpus that failed to load as well.
LoadFailureIsolatedWitness ==
    /\ BatchDone
    /\ Len(new_files) = 3
    /\ results[new_files[1]].status = "error"
    /\ \E p \in DOMAIN results : results[p].status = "duplicate"
    /\ \E p \in DOMAIN results : results[p].status = "unique"
    /\ \E f \in DOMAIN disk :
          IsGlobbed(f, SubmissionsDir(RepoRoot)) /\ disk[f] = None

\* The new files of the run other than the given one.
OtherNewFiles(filepath) ==
    {resolve(new_files[i]) : i \in 1..Len(new_files)} \ {resolve(filepath)}

\* The submissions that the matches stored for a new file refer to.
MatchedSubmissions(filepath) ==
    IF results[filepath].status = "duplicate"
    THEN {all_submissions[results[filepath].duplicates[m].submission] :
            m \in 1..Len(results[filepath].duplicates)}
    ELSE {}

\* C11: in a run no new file is compared with another new file of the
\* run: no match stored for a new file refers to a submission whose file is
\* another of the new files, also when the new files are in the submissions
\* directory, as they are when no path is given on the command line.
NewNeverMatchesNew ==
    \A p \in DOMAIN results :
       \A sub \in MatchedSubmissions(p) :
          resolve(sub.path) \notin OtherNewFiles(p)

\* The outcome of a new file, from the file and the corpus alone.
OutcomeOf(filepath) == Outcome(LoadOf(filepath), all_submissions)

\* C12: the run does not depend on the order of the new files.  What is
\* stored for a new file is a function of that file and the corpus, whatever
\* files came before it and whatever other files the run has, so the run
\* ends with the same mapping and the same flag for every order of the same
\* new files: the mapping of each of them to its own outcome, and the flag
\* set exactly when one of them is a duplicate.
BatchOrderIndependent ==
    /\ \A p \in DOMAIN results : results[p] = OutcomeOf(p)
    /\ batch_pc \in {"loop", "done"} =>
          /\ DOMAIN results = Handled
          /\ has_duplicates
                <=> \E p \in Handled : OutcomeOf(p).status = "duplicate"
    /\ BatchDone =>
          Handled = {new_files[i] : i \in 1..Len(new_files)}

\* A run of three different new files has ended of which the first is
\* unique and the others are duplicates, the last one with two matches.
BatchOrderIndependentWitness ==
    /\ BatchDone
    /\ Len(new_files) = 3
    /\ Cardinality(DOMAIN results) = 3
    /\ results[new_files[1]].status = "unique"
    /\ results[new_files[2]].status = "duplicate"
    /\ results[new_files[3]].status = "duplicate"
    /\ Len(results[new_files[3]].duplicates) >= 2

\* The files of the submissions directory that the glob yields and that
\* fail to load.
FailedCorpusFiles ==
    {f \in DOMAIN disk :
       IsGlobbed(f, SubmissionsDir(RepoRoot)) /\ disk[f] = None}

\* C13: a file that fails to load is on neither side of a comparison.  The
\* corpus list has no entry for a file that failed to load and one entry
\* for every other file of the glob, so no match refers to a failed file;
\* and a new file that failed to load is stored as an error without a
\* match list, check_duplicate not being called for it.
FailedLoadOnNeitherSide ==
    /\ batch_pc \in {"loop", "done"} =>
          /\ \A k \in 1..Len(all_submissions) :
                /\ all_submissions[k] # None
                /\ all_submissions[k].path \notin FailedCorpusFiles
          /\ \A f \in DOMAIN disk :
                IsGlobbed(f, SubmissionsDir(RepoRoot)) /\ disk[f] # None =>
                   Cardinality({k \in 1..Len(all_submissions) :
                                  all_submissions[k]
                                     = load_submission(f, disk[f])}) = 1
    /\ \A p \in DOMAIN results :
          /\ \A sub \in MatchedSubmissions(p) :
                sub.path \notin FailedCorpusFiles
          /\ LoadOf(p) = None =>
                /\ results[p].status = "error"
                /\ "duplicates" \notin DOMAIN results[p]

\* A run has ended in which a file of the corpus failed to load and the
\* two others loaded, a new file failed to load and another new file is a
\* duplicate of a file of the corpus.
FailedLoadOnNeitherSideWitness ==
    /\ BatchDone
    /\ FailedCorpusFiles # {}
    /\ Len(all_submissions) = 2
    /\ \E p \in DOMAIN results : LoadOf(p) = None
    /\ \E p \in DOMAIN results : MatchedSubmissions(p) # {}

\* The title of the new submission or that of element k is empty once
\* normalized.
EmptyTitle(k) ==
    \/ normalize_text(new_submission.title) = <<>>
    \/ normalize_text(existing_submissions[k].title) = <<>>

\* The content of the new submission or that of element k is empty once
\* normalized.
EmptyContent(k) ==
    \/ normalize_text(new_submission.content) = <<>>
    \/ normalize_text(existing_submissions[k].content) = <<>>

\* C14: an empty title or content scores low.  For an existing submission
\* that the loop has passed, a title that is empty on either side gives a
\* title similarity below 0.8 and no similar-title entry, and a content that
\* is empty on either side gives a content similarity below 0.6 and no
\* similar-content entry.
EmptyFieldScoresLow ==
    \A k \in Processed :
       /\ EmptyTitle(k) /\ ~SameIdentity(k) =>
             /\ ~GE(TitleScore(k), TITLE_SIMILARITY_THRESHOLD)
             /\ \A n \in EntriesFor(k) : duplicates[n].reason # SimilarTitle
       /\ EmptyContent(k) /\ ~SameIdentity(k) /\ ~SameHash(k) =>
             /\ ~GE(ContentScore(k), CONTENT_SIMILARITY_THRESHOLD)
             /\ \A n \in EntriesFor(k) : duplicates[n].reason # SimilarContent

\* C15: check_duplicate has no side effects.  No step of a call changes the
\* new submission or the list of existing submissions, its length, order
\* and elements; a step changes the match list of the call only, each of
\* whose entries refers to an element of the list.
NoSideEffects ==
    [][/\ new_submission' = new_submission
       /\ existing_submissions' = existing_submissions
       /\ \A n \in 1..Len(duplicates') :
             duplicates'[n].submission \in 1..Len(existing_submissions)]_vars

\* A call on three existing submissions has returned two matches that the
\* sort has put in another order than the list has them.
NoSideEffectsWitness ==
    /\ Done
    /\ Len(existing_submissions) = 3
    /\ Len(duplicates) = 2
    /\ duplicates[1].submission > duplicates[2].submission
    /\ existing_submissions[duplicates[1].submission].title
          # normalize_text(existing_submissions[duplicates[1].submission].title)

(***************************************************************************)
(* Properties of compute_similarity                                        *)
(***************************************************************************)
\* C16: similarity is symmetric.  The similarity of two texts is the same
\* with the arguments in either order.
SimilaritySymmetric ==
    forward # None /\ backward # None => forward = backward

\* C17: self-similarity.  The similarity of a text that is not empty with
\* itself is 1.0, as the first argument and as the second, whatever its
\* length and however often its characters repeat.
SelfSimilarity ==
    text1 = text2 /\ text1 # <<>> =>
       /\ forward # None => forward = One
       /\ backward # None => backward = One

\* The similarity of a text with itself has been computed whose normalized
\* form has 200 characters or more, each of them popular.
SelfSimilarityWitness ==
    /\ text1 = text2
    /\ forward = One
    /\ Len(normalize_text(text1)) >= 200
    /\ Popular(normalize_text(text1))
          = {normalize_text(text1)[i] : i \in 1..Len(normalize_text(text1))}

\* The characters of a text.
CharsOf(text) == {text[i] : i \in 1..Len(text)}

\* The normalized texts have a substring of one character or more in
\* common.
ShareSubstring(a, b) ==
    CharsOf(normalize_text(a)) \cap CharsOf(normalize_text(b)) # {}

\* C18: the similarity is the ratio of matched characters.  It is 2*M/T for
\* M the summed size of the matching blocks and T the summed length of the
\* normalized texts, it is between 0.0 and 1.0, it is 1.0 exactly when the
\* normalized texts are the same, and 0.0 exactly when they have no
\* substring in common.
SimilarityIsMatchRatio ==
    forward # None =>
       /\ forward
             = calculate_ratio(
                  MatchedIn(normalize_text(text1), normalize_text(text2),
                            Popular(normalize_text(text2)),
                            0, Len(normalize_text(text1)),
                            0, Len(normalize_text(text2))),
                  Len(normalize_text(text1)) + Len(normalize_text(text2)))
       /\ GE(forward, Frac(0, 1)) /\ GE(One, forward)
       /\ forward = One <=> normalize_text(text1) = normalize_text(text2)
       /\ forward = Frac(0, 1) <=> ~ShareSubstring(text1, text2)

(***************************************************************************)
(* Properties of normalize_text and compute_hash                           *)
(***************************************************************************)
\* C19: normalization is idempotent.  normalize_text applied to what
\* normalize_text returned for a text returns it unchanged.
NormalizeIdempotent ==
    /\ Len(normalized) >= 1 => normalized[1] = normalize_text(text1)
    /\ Len(normalized) = 2 => normalized[2] = normalized[1]

\* A text has been normalized twice that the first normalization changed in
\* case, in punctuation and in whitespace.
NormalizeIdempotentWitness ==
    /\ Len(normalized) = 2
    /\ normalized[1] # <<>>
    /\ Lower(text1) # text1
    /\ RemovePunctuation(text1) # text1
    /\ CollapseWhitespace(RemovePunctuation(Lower(text1))) # normalized[1]

\* C20: the hash is a function of the normalized content.  Two texts with
\* the same normalized form have the same hash, the same texts or not; and
\* the hash of a loaded submission is the hash of its content, so that
\* submissions whose contents have the same normalized form have the same
\* hash whatever their paths and titles and in whatever order they were
\* loaded.
HashOfNormalizedContent ==
    /\ hashes # <<>> =>
          (normalize_text(text1) = normalize_text(text2)
             => hashes[1] = hashes[2])
    /\ \A i \in 1..Len(loaded) :
          /\ loaded[i].content = text1 => loaded[i].hash = hashes[1]
          /\ loaded[i].content = text2 => loaded[i].hash = hashes[2]
    /\ \A i, j \in 1..Len(loaded) :
          normalize_text(loaded[i].content) = normalize_text(loaded[j].content)
             => loaded[i].hash = loaded[j].hash

\* Two texts that differ and have the same normalized form, not empty,
\* have been hashed and loaded, the second before the first, under
\* different paths and titles.
HashOfNormalizedContentWitness ==
    /\ hashes # <<>>
    /\ text1 # text2
    /\ normalize_text(text1) = normalize_text(text2)
    /\ normalize_text(text1) # <<>>
    /\ Len(loaded) = 2
    /\ loaded[1].content = text2
    /\ loaded[2].content = text1
    /\ loaded[1].path # loaded[2].path
    /\ loaded[1].title # loaded[2].title

\* The text is in canonical form: lowercase word characters and single
\* spaces only, with no space at either end.
Canonical(text) ==
    /\ \A i \in 1..Len(text) :
          text[i] \in LowerChars \cup DigitChars \cup {"_", " "}
    /\ \A i \in 1..(Len(text) - 1) : ~(text[i] = " " /\ text[i + 1] = " ")
    /\ text # <<>> => text[1] # " " /\ text[Len(text)] # " "

\* The words of a text: its maximal runs of characters that are no
\* whitespace, with word the run that ends the part already read.
RECURSIVE WordsFrom(_, _, _)
WordsFrom(text, i, word) ==
    IF i > Len(text) THEN (IF word = <<>> THEN <<>> ELSE <<word>>)
    ELSE IF IsSpaceChar(text[i])
         THEN (IF word = <<>> THEN <<>> ELSE <<word>>)
                 \o WordsFrom(text, i + 1, <<>>)
    ELSE WordsFrom(text, i + 1, Append(word, text[i]))

Words(text) == WordsFrom(text, 1, <<>>)

\* The texts differ in the case of their letters only.
SameButCase(a, b) ==
    /\ Len(a) = Len(b)
    /\ \A i \in 1..Len(a) : LowerChar(a[i]) = LowerChar(b[i])

\* The texts differ in their punctuation only.
SameButPunctuation(a, b) == WithoutPunctuation(a) = WithoutPunctuation(b)

\* The texts differ in the amount of whitespace between and around their
\* words only.
SameButSpacing(a, b) == Words(a) = Words(b)

SomeDuplicate == \E p \in DOMAIN results : results[p].status = "duplicate"

\* C22: the flag and the exit code.  The flag that the run returns is set
\* exactly when some entry of the results is a duplicate; main returns 1
\* exactly then and 0 otherwise, so that files that failed to load do not
\* make it return 1; and with no file to check main returns 0 with nothing
\* loaded.
ExitCodeIffDuplicate ==
    /\ batch_pc \in {"loop", "done"} => (has_duplicates <=> SomeDuplicate)
    /\ \A n \in 1..Len(exit_code) :
          /\ exit_code[n] \in {0, 1}
          /\ exit_code[n] = 1 <=> SomeDuplicate
    /\ Len(exit_code) <= 1
    /\ exit_code # <<>> /\ new_files = <<>> =>
          /\ exit_code = <<0>>
          /\ batch_pc = "exit"
          /\ all_submissions = <<>>
    /\ batch_pc \in {"start", "loop", "done"} => new_files # <<>>

\* main has returned 0 for files of which one failed to load and one is
\* unique.
ExitCodeIffDuplicateWitness ==
    /\ exit_code = <<0>>
    /\ \E p \in DOMAIN results : results[p].status = "error"
    /\ \E p \in DOMAIN results : results[p].status = "unique"

(***************************************************************************)
(* Properties of check_link                                                *)
(***************************************************************************)
LinkDone == link_pc = "done"

\* What the last request came back with.
LastReceived == received[Len(received)]

\* C23: the requests of check_link.  A call that comes to the request sends
\* one HEAD request first and a GET request only after the HEAD request
\* returned 405, and then one; it returns a valid result exactly when the
\* response received last has a status from 200 to 399; and when a request
\* raises, it returns an invalid result.
RequestProtocol ==
    /\ sent \in {<<>>, <<"HEAD">>, <<"HEAD", "GET">>}
    /\ Len(received) <= Len(sent)
    /\ Len(sent) = 2 => received[1] = Response(405)
    /\ link_pc = "head" => sent = <<"HEAD">> /\ received = <<>>
    /\ link_pc = "get" => sent = <<"HEAD", "GET">> /\ Len(received) = 1
    /\ LinkDone /\ sent # <<>> =>
          /\ Len(received) = Len(sent)
          /\ received[1] = Response(405) => Len(sent) = 2
          /\ Len(link_result) = 1
          /\ link_result[1].url = url
          /\ link_result[1].is_valid
                <=> /\ IsResponse(LastReceived)
                    /\ LastReceived.status_code \in SUCCESS_CODES
    /\ ~LinkDone => link_result = <<>>

\* A call has returned a valid result after a HEAD request that returned
\* 405 and a GET request that returned a status from 200 to 399.
RequestProtocolWitness ==
    /\ LinkDone
    /\ sent = <<"HEAD", "GET">>
    /\ IsResponse(LastReceived)
    /\ LastReceived.status_code \in SUCCESS_CODES
    /\ link_result[1].is_valid

\* C24: check_link decides without a request.  No request is sent for a
\* URL that matches a skip pattern, that has no scheme or no host, or whose
\* host has a trusted or a warn domain in it; and these are taken in this
\* order: a URL that matches a skip pattern is valid, malformed or not,
\* another URL that is malformed is invalid, and another URL of a trusted
\* or of a warn domain is valid.
DecidedWithoutRequest ==
    /\ (\/ should_skip_url(url)
        \/ Malformed(url)
        \/ is_trusted_domain(url)
        \/ is_warn_domain(url)) =>
          /\ sent = <<>>
          /\ received = <<>>
          /\ link_pc \in {"start", "done"}
    /\ LinkDone /\ should_skip_url(url) =>
          link_result
             = <<LinkResult(url, TRUE,
                            Message("Skipped (internal/special link)"))>>
    /\ LinkDone /\ ~should_skip_url(url) /\ Malformed(url) =>
          link_result
             = <<LinkResult(url, FALSE, Message("Invalid URL format"))>>
    /\ LinkDone /\ ~should_skip_url(url) /\ ~Malformed(url)
         /\ is_trusted_domain(url) =>
          link_result
             = <<LinkResult(url, TRUE, Message("OK (trusted domain)"))>>
    /\ LinkDone /\ ~should_skip_url(url) /\ ~Malformed(url)
         /\ ~is_trusted_domain(url) /\ is_warn_domain(url) =>
          /\ Len(link_result) = 1
          /\ link_result[1].is_valid
          /\ link_result[1].message
                = Message("Warning: Domain may block automated requests")

\* A call has returned a valid result for a URL that matches a skip
\* pattern after its host and that has no scheme.
DecidedWithoutRequestWitness ==
    /\ LinkDone
    /\ should_skip_url(url)
    /\ Malformed(url)
    /\ Netloc(url) # <<>>
    /\ ~should_skip_url(Netloc(url))
    /\ link_result[1].is_valid

(***************************************************************************)
(* Properties of check_file_links                                          *)
(***************************************************************************)
FileReturned == file_result # <<>>

\* The results that are for the link submitted as number i.
ResultsFor(checked, i) ==
    {k \in 1..Len(checked) :
        checked[k] = check_link(link_file.links[i], link_file.status)}

\* C25: check_links_parallel returns exactly one result for each submitted
\* URL, whatever the order in which the workers finish, and check_file_links
\* reports all_valid exactly when every result is valid: (True, []) for a
\* file without links, (False, [one failure entry]) for a file that cannot
\* be read.
OneResultPerUrl ==
    FileReturned =>
        LET returned == file_result[1]
        IN  IF ~CanBeRead(link_file)
            THEN /\ ~returned.all_valid
                 /\ Len(returned.results) = 1
                 /\ ~returned.results[1].is_valid
            ELSE /\ Len(returned.results) = Len(link_file.links)
                 /\ \A i \in 1..Len(link_file.links) :
                       Cardinality(ResultsFor(returned.results, i)) = 1
                 /\ returned.all_valid
                       <=> (\A k \in 1..Len(returned.results) :
                               returned.results[k].is_valid)
                 /\ link_file.links = <<>>
                       => returned = FileResult(TRUE, <<>>)

\* A file with more links than workers, the result of the link submitted
\* last returned before the result of the link submitted first, valid and
\* invalid results together.
OneResultPerUrlWitness ==
    /\ FileReturned
    /\ CanBeRead(link_file)
    /\ Len(link_file.links) > MAX_WORKERS
    /\ LET checked == file_result[1].results
       IN  /\ checked[1].url = link_file.links[Len(link_file.links)]
           /\ checked[Len(checked)].url = link_file.links[1]
           /\ \E k \in 1..Len(checked) : checked[k].is_valid
           /\ \E k \in 1..Len(checked) : ~checked[k].is_valid

(***************************************************************************)
(* Properties of update_readme_section                                     *)
(***************************************************************************)
IsPrefix(p, t) == Len(p) <= Len(t) /\ SubSeq(t, 1, Len(p)) = p

IsSuffix(p, t) ==
    Len(p) <= Len(t) /\ SubSeq(t, Len(t) - Len(p) + 1, Len(t)) = p

MarkersFound(content) ==
    /\ FindMarker(content, CATEGORIES_START) # 0
    /\ FindMarker(content, CATEGORIES_END) # 0

\* The text before the start marker and the text from the end marker on.
BeforeStart(content) ==
    SubSeq(content, 1, FindMarker(content, CATEGORIES_START) - 1)

FromEnd(content) ==
    SubSeq(content, FindMarker(content, CATEGORIES_END), Len(content))

\* C26: updating a section of a README is idempotent and leaves the rest of
\* the document as it is: the second update with the same markers and the
\* same new content gives the document of the first, the text before the
\* start marker and the text from the end marker on are kept, and the
\* content is returned as it is when a marker is missing.
SectionUpdateIdempotent ==
    /\ Len(updated) >= 1 =>
          IF MarkersFound(readme)
          THEN /\ IsPrefix(BeforeStart(readme), updated[1])
               /\ IsSuffix(FromEnd(readme), updated[1])
          ELSE updated[1] = readme
    /\ Len(updated) = 2 => updated[2] = updated[1]

\* The parts of C26 other than idempotence.
SectionUpdateKeepsRest ==
    Len(updated) >= 1 =>
        IF MarkersFound(readme)
        THEN /\ IsPrefix(BeforeStart(readme), updated[1])
             /\ IsSuffix(FromEnd(readme), updated[1])
        ELSE updated[1] = readme

\* The second update of a document with the start marker before the end
\* marker and a new content without markers gives the document of the
\* first.
SectionUpdateIdempotentWellFormed ==
    (/\ Len(updated) = 2
     /\ MarkersFound(readme)
     /\ FindMarker(readme, CATEGORIES_START)
           < FindMarker(readme, CATEGORIES_END)
     /\ FindMarker(new_content, CATEGORIES_START) = 0
     /\ FindMarker(new_content, CATEGORIES_END) = 0)
        => updated[2] = updated[1]

=============================================================================
